---- MODULE Spec2Model ----
(***************************************************************************)
(* Model of src/buddy.c: a buddy allocator over one static arena.          *)
(*                                                                         *)
(* The memory of the allocator is modelled at the level the code touches   *)
(* it: free_area[] is an array of list heads (next, prev), g_pages[] an    *)
(* array of page_t (list.next, list.prev, location, index, order), and a   *)
(* pointer is a tagged value saying which object it addresses.  buddy_alloc*)
(* applies list_entry() to a list HEAD, so a page_t is overlaid on         *)
(* free_area: with list first in page_t and a list_head two pointers long, *)
(* for a = &free_area[j] the field a->location is the storage of           *)
(* free_area[j+1].next and a->order is the low byte of free_area[j+2].next *)
(* (the same on ILP32 and LP64).  Accesses that leave an array, a read of  *)
(* the uninitialised local `allocation`, and dereferences of invalid       *)
(* pointers are undefined behaviour and are modelled as a choice over the  *)
(* outcomes: a fault, or an arbitrary value from a representative set.     *)
(***************************************************************************)
EXTENDS Integers, Naturals, Sequences, FiniteSets, TLC

\* ------------------------------------------------------------------------
\* Configuration
\* ------------------------------------------------------------------------
MIN_ORDER == 12
\* The source builds with 20; the model keeps the arena small.
MAX_ORDER == 14
\* Number of writable objects outside g_pages[] that &g_pages[idx], idx out
\* of range, may land on.
NOob == 1
\* Number of API calls explored after initialisation.
MaxOps == 2
\* MAX_ORDER as the source sets it; the buddy-address macro is explored over
\* the whole arena of that build.
MAX_ORDER_SRC == 20

PAGE_SIZE == 2^MIN_ORDER
ArenaSize == 2^MAX_ORDER
n_pages == ArenaSize \div PAGE_SIZE

Orders == MIN_ORDER..MAX_ORDER
FaIdx == 0..MAX_ORDER
PageIdx == 0..(n_pages - 1)
OobIdx == n_pages..(n_pages + NOob - 1)
AllIdx == 0..(n_pages + NOob - 1)
Unmapped == -1

\* ------------------------------------------------------------------------
\* Pointer values
\* ------------------------------------------------------------------------
NULL == [k |-> "null", i |-> 0]
\* an address at which no object lives (LIST_POISON, a misaligned or
\* unmapped address): not NULL, faults when dereferenced
BAD == [k |-> "bad", i |-> 0]
FaPtr(o) == [k |-> "fa", i |-> o]
PgPtr(p) == [k |-> "pg", i |-> p]
MemPtr(off) == [k |-> "mem", i |-> off]

Valid(p) == \/ p.k = "fa" /\ p.i \in FaIdx
            \/ p.k = "pg" /\ p.i \in AllIdx

PAGE_TO_ADDR(page_idx) == MemPtr(page_idx * PAGE_SIZE)

ADDR_TO_PAGE(off) == off \div PAGE_SIZE

\* BUDDY_ADDR that adds the bit instead of flipping it
BUDDY_ADDR_add(off, o) == off + 2^o

\* offset ^ (1 << o)
BUDDY_ADDR(off, o) ==
  IF (off \div (2^o)) % 2 = 1 THEN off - 2^o ELSE off + 2^o

\* What a read outside the allocator's arrays (just past free_area[], just
\* before it, or through a stray pointer) can yield: the neighbouring
\* storage may be zero, hold no pointer at all, hold a list pointer of the
\* allocator's own tables or, when it is the arena, any caller data.
OOBVals == {NULL, BAD, PgPtr(0), MemPtr(0)}

\* Values the uninitialised local `allocation` can hold on entry: zero, an
\* address of no object, or what other code left in the slot, such as a
\* list head (an earlier call's `allocation`) or a page.
GarbagePtrs == {NULL, BAD, FaPtr(MIN_ORDER), PgPtr(0)}

\* Request sizes explored: 1, every power of two of the arena and each plus
\* one, so that every desired order and the oversize case occur.
SizeInputs == {1} \cup {2^o : o \in Orders} \cup {2^o + 1 : o \in Orders}

\* ------------------------------------------------------------------------
\* State
\* ------------------------------------------------------------------------
VARIABLES
  free_area,   \* [FaIdx -> [next, prev]]
  g_pages,     \* [AllIdx -> [next, prev, order]]; index, location are fixed
  delmark,     \* what list_del leaves in the deleted entry (list.h variant)
  status,      \* "ok", or "fault"/"hang" once the process died or diverged
  ret,         \* value returned by the last buddy_alloc
  dumped,      \* per-order counts printed by the last buddy_dump
  live,        \* history: <<[addr, order]>> returned and not yet freed
  last,        \* history: the last call
  nops,        \* number of calls made
  probe        \* an evaluation of BUDDY_ADDR: input (a, k), results b, bb

vars == <<free_area, g_pages, delmark, status, ret, dumped, live, last, nops,
          probe>>

Mem(fa, pg, st) == [fa |-> fa, pg |-> pg, st |-> st]
Fault(m) == [m EXCEPT !.st = "fault"]

LoadNext(m, p) == IF p.k = "fa" THEN m.fa[p.i].next ELSE m.pg[p.i].next
LoadPrev(m, p) == IF p.k = "fa" THEN m.fa[p.i].prev ELSE m.pg[p.i].prev
StoreNext(m, p, v) ==
  IF p.k = "fa" THEN [m EXCEPT !.fa[p.i].next = v]
  ELSE [m EXCEPT !.pg[p.i].next = v]
StorePrev(m, p, v) ==
  IF p.k = "fa" THEN [m EXCEPT !.fa[p.i].prev = v]
  ELSE [m EXCEPT !.pg[p.i].prev = v]

\* ------------------------------------------------------------------------
\* list.h
\* ------------------------------------------------------------------------
INIT_LIST_HEAD(m, h) ==
  [m EXCEPT !.fa[h] = [next |-> FaPtr(h), prev |-> FaPtr(h)]]

list_empty(m, h) == m.fa[h].next = FaPtr(h)

\* __list_del(prev, next): next->prev = prev; prev->next = next;
list_unlink(m, prev, next) ==
  IF ~Valid(next) THEN Fault(m)
  ELSE LET m1 == StorePrev(m, next, prev)
       IN  IF ~Valid(prev) THEN Fault(m1) ELSE StoreNext(m1, prev, next)

list_del(m, entry, mark) ==
  LET m1 == list_unlink(m, LoadPrev(m, entry), LoadNext(m, entry))
  IN  IF m1.st # "ok" THEN m1
      ELSE StorePrev(StoreNext(m1, entry, mark), entry, mark)

\* list_add(new, head) = __list_add(new, head, head->next)
list_add(m, new, h) ==
  LET head == FaPtr(h)
      next == LoadNext(m, head)
  IN  IF ~Valid(next) THEN Fault(m)
      ELSE StoreNext(
             StorePrev(
               StoreNext(StorePrev(m, next, new), new, next),
               new, head),
             head, new)

\* list_for_each(pos, head) cnt++: the number of entries met, or a fault when
\* pos is no object, or a hang when the walk never comes back to the head.
RECURSIVE WalkFrom(_, _, _, _)
WalkFrom(m, h, pos, n) ==
  IF pos = FaPtr(h) THEN [st |-> "ok", cnt |-> n]
  ELSE IF ~Valid(pos) THEN [st |-> "fault", cnt |-> n]
  ELSE IF n > MAX_ORDER + n_pages + NOob THEN [st |-> "hang", cnt |-> n]
  ELSE WalkFrom(m, h, LoadNext(m, pos), n + 1)

Walk(m, h) == WalkFrom(m, h, m.fa[h].next, 0)

\* the entries linked on free list h, as far as the list can be followed
RECURSIVE MembersFrom(_, _, _, _)
MembersFrom(m, h, pos, acc) ==
  IF pos = FaPtr(h) \/ ~Valid(pos) \/ pos \in acc THEN acc
  ELSE MembersFrom(m, h, LoadNext(m, pos), acc \cup {pos})

Members(m, h) == MembersFrom(m, h, m.fa[h].next, {})

\* ------------------------------------------------------------------------
\* buddy_init
\* ------------------------------------------------------------------------
RECURSIVE InitHeads(_, _)
InitHeads(m, i) ==
  IF i > MAX_ORDER THEN m ELSE InitHeads(INIT_LIST_HEAD(m, i), i + 1)

\* buddy_init with the head loop starting one order too high
buddy_init_skip_min(m) ==
  LET m1 == [m EXCEPT !.pg = [p \in AllIdx |->
                IF p \in PageIdx THEN [m.pg[p] EXCEPT !.order = 255]
                ELSE m.pg[p]]]
      m2 == InitHeads(m1, MIN_ORDER + 1)
  IN  list_add(m2, PgPtr(0), MAX_ORDER)

buddy_init(m) ==
  LET m1 == [m EXCEPT !.pg = [p \in AllIdx |->
                IF p \in PageIdx THEN [m.pg[p] EXCEPT !.order = 255]
                ELSE m.pg[p]]]
      m2 == InitHeads(m1, MIN_ORDER)
  IN  list_add(m2, PgPtr(0), MAX_ORDER)

\* Static storage before the first call: all zero.
ZeroMem ==
  Mem([h \in FaIdx |-> [next |-> NULL, prev |-> NULL]],
      [p \in AllIdx |-> [next |-> NULL, prev |-> NULL, order |-> 0]],
      "ok")

\* The record of a call: op, the desired order d of an alloc (or the order
\* of the block freed), the address returned or freed, the per-order view
\* of the free lists before the call (pre), the number n of outstanding
\* allocations before it, whether the arena held no free block of order
\* >= d when it was made (oom), whether it left the free lists and the
\* page table as they were (same), and for a free whether it directly follows the alloc
\* that returned its address (rt).
Call(op, d, addr, pre, n, oom, same, rt) ==
  [op |-> op, d |-> d, addr |-> addr, pre |-> pre, n |-> n,
   oom |-> oom, same |-> same, rt |-> rt]
NoDump == <<>>

\* ------------------------------------------------------------------------
\* buddy_alloc
\* ------------------------------------------------------------------------
\* for (i = MIN_ORDER; i <= MAX_ORDER; i++): desired_order, upper_order
RECURSIVE FindOrders(_, _, _, _)
FindOrders(m, size, i, d) ==
  IF i > MAX_ORDER THEN [d |-> d, upper |-> -1]
  ELSE LET d1 == IF d < MIN_ORDER /\ size <= 2^i THEN i ELSE d
       IN  IF d1 >= MIN_ORDER /\ ~list_empty(m, i)
           THEN [d |-> d1, upper |-> i]
           ELSE FindOrders(m, size, i + 1, d1)

\* A pointer after its low byte was overwritten with v: the same pointer
\* when the byte already was v, otherwise an address of no object.
SetLowByte(p, v) ==
  IF p = NULL /\ v = 0 THEN {NULL}
  ELSE IF Valid(p) THEN {p, BAD}
  ELSE {BAD}

\* ((page_t *)&free_area[j])->order = v: the low byte of free_area[j+2].next,
\* or storage behind the array, which the model does not track.
StoreOrderFa(m, j, v) ==
  IF j + 2 \in FaIdx
  THEN {[m EXCEPT !.fa[j + 2].next = q] : q \in SetLowByte(m.fa[j + 2].next, v)}
  ELSE {m}

\* ((page_t *)&free_area[j])->location: free_area[j+1].next, or whatever
\* lies behind the array.
LoadLocationFa(m, j) ==
  IF j + 1 \in FaIdx THEN {m.fa[j + 1].next} ELSE OOBVals

\* ADDR_TO_PAGE(BUDDY_ADDR(location, o)) as an index into g_pages: a page of
\* the table when location is an arena address; for any other address the
\* index is outside the table, on writable storage or on none.
BuddyTargets(loc, o) ==
  IF loc.k = "mem" THEN {ADDR_TO_PAGE(BUDDY_ADDR(loc.i, o))}
  ELSE OobIdx \cup {Unmapped}

\* One pass of the splitting loop, for (i = upper_order; i > desired_order; i--)
SplitStep(m, i, mark) ==
  LET m1 == list_del(m, FaPtr(i), mark)
  IN  IF m1.st # "ok" THEN {m1}
      ELSE UNION { UNION { { IF b = Unmapped THEN Fault(m2)
                             ELSE list_add([m2 EXCEPT !.pg[b].order = i],
                                           PgPtr(b), i - 1)
                             : b \in BuddyTargets(loc, i - 1) }
                           : loc \in LoadLocationFa(m2, i) }
                 : m2 \in StoreOrderFa(m1, i, i) }

RECURSIVE SplitLoop(_, _, _, _)
SplitLoop(ms, i, d, mark) ==
  IF i <= d THEN ms
  ELSE SplitLoop(UNION { IF m.st = "ok" THEN SplitStep(m, i, mark) ELSE {m}
                         : m \in ms },
                 i - 1, d, mark)

Result(m, r) == [m |-> m, ret |-> r]

\* return allocation->location
ReturnLocation(m, a) ==
  IF m.st # "ok" THEN {Result(m, NULL)}
  ELSE IF a.k = "fa" THEN {Result(m, v) : v \in LoadLocationFa(m, a.i)}
  ELSE IF a.k = "pg" THEN {Result(m, PAGE_TO_ADDR(a.i))}
  ELSE {Result(Fault(m), NULL)} \cup {Result(m, v) : v \in OOBVals}

\* if (allocation == NULL) { list_entry(&free_area[desired_order]) ... }
TakeHead(m, d, mark) ==
  LET dels == IF d \in FaIdx THEN {list_del(m, FaPtr(d), mark)}
              ELSE {list_unlink(m, pv, nx) : pv \in OOBVals, nx \in OOBVals}
  IN  UNION { IF m1.st # "ok" THEN {m1} ELSE StoreOrderFa(m1, d, d % 256)
              : m1 \in dels }

\* buddy_alloc(size) entered with `allocation` holding g: the set of
\* (memory, returned pointer) the call can end with.
buddy_alloc(m, size, g, mark) ==
  LET fo == FindOrders(m, size, MIN_ORDER, -1)
      d == fo.d
      upper == fo.upper
  IN  IF upper > d
      THEN UNION { ReturnLocation(m1, FaPtr(d + 1))
                   : m1 \in SplitLoop({m}, upper, d, mark) }
      ELSE IF g = NULL
      THEN UNION { ReturnLocation(m1, FaPtr(d)) : m1 \in TakeHead(m, d, mark) }
      ELSE ReturnLocation(m, g)

\* ------------------------------------------------------------------------
\* buddy_free, buddy_dump
\* ------------------------------------------------------------------------
\* buddy_free that takes the first entry of the lowest non-empty free list
\* off its list, as if merging with whatever block is free
buddy_free_merge_first(m, addr) ==
  LET full == {o \in Orders : Members(m, o) # {}}
  IN  IF full = {} THEN m
      ELSE LET o == CHOOSE x \in full : \A y \in full : x <= y
           IN  list_del(m, m.fa[o].next, NULL)

buddy_free(m, addr) == m

buddy_dump(m) ==
  LET w == [o \in Orders |-> Walk(m, o)]
      bad == {o \in Orders : w[o].st # "ok"}
  IN  IF bad = {} THEN [st |-> "ok", out |-> [o \in Orders |-> w[o].cnt]]
      ELSE [st |-> w[CHOOSE o \in bad : \A o2 \in bad : o <= o2].st,
            out |-> NoDump]

\* ------------------------------------------------------------------------
\* Observations used by the properties
\* ------------------------------------------------------------------------
Cur == Mem(free_area, g_pages, status)

DesiredOrder(size) == FindOrders(Cur, size, MIN_ORDER, -1).d

\* per-order number of entries on each free list, -1 where the list cannot
\* be walked
DumpView(m) ==
  [o \in Orders |-> IF Walk(m, o).st = "ok" THEN Walk(m, o).cnt ELSE -1]

\* the pages of g_pages[] that head a block on free list o
FreeBlocks(m, o) == {p \in PageIdx : PgPtr(p) \in Members(m, o)}

\* no free list of order d..MAX_ORDER holds a block
Exhausted(m, d) ==
  d \in Orders /\ \A o \in d..MAX_ORDER : FreeBlocks(m, o) = {}

\* upper_order for a request of desired order d
UpperOrder(m, d) == FindOrders(m, 2^d, MIN_ORDER, -1).upper

\* the memory after the step
NextMem == Mem(free_area', g_pages', status')

\* m has the free lists and the page table of the current state
SameTables(m) ==
  /\ \A o \in Orders : m.fa[o] = free_area[o]
  /\ \A p \in PageIdx : m.pg[p] = g_pages[p]

RemoveAt(s, i) == [j \in 1..(Len(s) - 1) |-> IF j < i THEN s[j] ELSE s[j + 1]]

\* ------------------------------------------------------------------------
\* Specification
\* ------------------------------------------------------------------------
NoProbe == [st |-> "idle", a |-> 0, k |-> 0, b |-> 0, bb |-> 0]

\* every order below MAX_ORDER_SRC with every offset of the arena aligned
\* to it
ProbeInputs ==
  {[st |-> "in", a |-> n * 2^k, k |-> k, b |-> 0, bb |-> 0] :
     k \in MIN_ORDER..(MAX_ORDER_SRC - 1),
     n \in 0..(2^(MAX_ORDER_SRC - MIN_ORDER) - 1)}

AllocInit ==
  /\ delmark \in {NULL, BAD}
  /\ LET m == buddy_init(ZeroMem)
     IN  /\ free_area = m.fa
         /\ g_pages = m.pg
         /\ status = m.st
  /\ ret = NULL
  /\ dumped = NoDump
  /\ live = <<>>
  /\ last = Call("init", 0, NULL, <<>>, 0, FALSE, FALSE, FALSE)
  /\ nops = 0

Init == AllocInit /\ probe = NoProbe

BuddyInit ==
  /\ status = "ok"
  /\ nops < MaxOps
  /\ LET m == buddy_init(Cur)
     IN  /\ free_area' = m.fa
         /\ g_pages' = m.pg
         /\ status' = m.st
  /\ ret' = NULL
  /\ dumped' = NoDump
  /\ live' = <<>>
  /\ last' = Call("init", 0, NULL, DumpView(Cur), Len(live), FALSE, FALSE, FALSE)
  /\ nops' = nops + 1
  /\ UNCHANGED <<delmark, probe>>

BuddyAlloc ==
  /\ status = "ok"
  /\ nops < MaxOps
  /\ \E size \in SizeInputs, g \in GarbagePtrs :
       \E r \in buddy_alloc(Cur, size, g, delmark) :
         /\ free_area' = IF r.m.st = "ok" THEN r.m.fa ELSE free_area
         /\ g_pages' = IF r.m.st = "ok" THEN r.m.pg ELSE g_pages
         /\ status' = r.m.st
         /\ ret' = r.ret
         /\ live' = IF r.m.st = "ok" /\ r.ret # NULL /\ size <= ArenaSize
                    THEN Append(live, [addr |-> r.ret, order |-> DesiredOrder(size)])
                    ELSE live
         /\ last' = Call("alloc", DesiredOrder(size), r.ret, DumpView(Cur),
                         Len(live), Exhausted(Cur, DesiredOrder(size)),
                         SameTables(r.m), FALSE)
  /\ nops' = nops + 1
  /\ UNCHANGED <<delmark, dumped, probe>>

BuddyFree ==
  /\ status = "ok"
  /\ nops < MaxOps
  /\ \E i \in DOMAIN live :
       LET m == buddy_free(Cur, live[i].addr)
       IN  /\ free_area' = m.fa
           /\ g_pages' = m.pg
           /\ status' = m.st
           /\ live' = RemoveAt(live, i)
           /\ last' = Call("free", live[i].order, live[i].addr, last.pre,
                           Len(live), FALSE,
                           SameTables(m),
                           last.op = "alloc" /\ i = Len(live)
                             /\ last.addr = live[i].addr)
  /\ nops' = nops + 1
  /\ UNCHANGED <<delmark, ret, dumped, probe>>

BuddyDump ==
  /\ status = "ok"
  /\ nops < MaxOps
  /\ LET r == buddy_dump(Cur)
     IN  /\ status' = r.st
         /\ dumped' = r.out
  /\ last' = Call("dump", 0, NULL, DumpView(Cur), Len(live), FALSE, TRUE, FALSE)
  /\ nops' = nops + 1
  /\ UNCHANGED <<free_area, g_pages, delmark, ret, live, probe>>

Next == BuddyInit \/ BuddyAlloc \/ BuddyFree \/ BuddyDump

Spec == Init /\ [][Next]_vars

\* BUDDY_ADDR on its own: the buddy of (a, k), then the buddy of the result
allocvars == <<free_area, g_pages, delmark, status, ret, dumped, live, last,
               nops>>

InitBuddy == AllocInit /\ probe \in {x \in ProbeInputs : x.a < 2^MAX_ORDER_SRC}

BuddyOnce ==
  /\ probe.st = "in"
  /\ probe' = [probe EXCEPT !.st = "once", !.b = BUDDY_ADDR(probe.a, probe.k)]
  /\ UNCHANGED allocvars

BuddyTwice ==
  /\ probe.st = "once"
  /\ probe' = [probe EXCEPT !.st = "twice", !.bb = BUDDY_ADDR(probe.b, probe.k)]
  /\ UNCHANGED allocvars

NextBuddy == BuddyOnce \/ BuddyTwice

SpecBuddy == InitBuddy /\ [][NextBuddy]_vars

\* ------------------------------------------------------------------------
\* Properties
\* ------------------------------------------------------------------------
RECURSIVE LiveBytes(_)
LiveBytes(s) == IF s = <<>> THEN 0 ELSE 2^(Head(s).order) + LiveBytes(Tail(s))

RECURSIVE FreeBytesFrom(_)
FreeBytesFrom(o) ==
  IF o > MAX_ORDER THEN 0
  ELSE 2^o * Cardinality(Members(Cur, o)) + FreeBytesFrom(o + 1)

FreeBytes == FreeBytesFrom(MIN_ORDER)

\* a call that returned an address to its caller
Returned == status = "ok" /\ last.op = "alloc" /\ ret # NULL

\* every call made so far was a buddy_alloc that returned a block
OnlyAllocs == status = "ok" /\ nops > 0 /\ Len(live) = nops

InArena(a, o) ==
  a.k = "mem" /\ a.i >= 0 /\ a.i + 2^o <= ArenaSize

Overlap(a, b) ==
  \/ a.addr = b.addr
  \/ /\ a.addr.k = "mem" /\ b.addr.k = "mem"
     /\ a.addr.i < b.addr.i + 2^(b.order)
     /\ b.addr.i < a.addr.i + 2^(a.order)

\* C1 (capacity): after buddy_init and only successful buddy_alloc calls,
\* the bytes of the allocated blocks plus the bytes of the blocks on the
\* free lists MIN_ORDER..MAX_ORDER add up to 2^MAX_ORDER.
C1_Capacity == OnlyAllocs => LiveBytes(live) + FreeBytes = ArenaSize

\* C2 (no overlap): any two distinct live allocations occupy disjoint
\* address ranges [addr, addr + 2^order).
C2_NoOverlap ==
  \A i \in DOMAIN live : \A j \in DOMAIN live :
    i < j => ~Overlap(live[i], live[j])

\* C3 (round trip): buddy_free of the address the directly preceding
\* buddy_alloc returned puts the per-order free-block counts back to what
\* they were before that alloc.
C3_RoundTrip ==
  (status = "ok" /\ last.op = "free" /\ last.rt) => DumpView(Cur) = last.pre

\* C4 (out of memory): a buddy_alloc of a valid size made while no free list
\* of order desired_order..MAX_ORDER holds a block reports failure: it
\* returns no address and unlinks nothing.
C4_OutOfMemory ==
  (last.op = "alloc" /\ last.oom) =>
    (status = "ok" /\ ret = NULL /\ last.same)

\* C5 (oversize): a buddy_alloc of more than 2^MAX_ORDER bytes reports
\* failure and returns no address.
C5_Oversize ==
  (last.op = "alloc" /\ last.d < MIN_ORDER) => (status = "ok" /\ ret = NULL)

\* C6 (no partial failure): a buddy_alloc made under a failure condition
\* (oversize, or no block of a sufficient order free) leaves every free list
\* and every page's metadata as it found them.
C6_NoPartialFailure ==
  (status = "ok" /\ last.op = "alloc" /\ (last.d < MIN_ORDER \/ last.oom))
    => last.same

\* C7 (recorded order): the address a buddy_alloc of a valid size returns is
\* the base of a page whose order field holds desired_order.
C7_RecordedOrder ==
  (Returned /\ last.d \in Orders) =>
    /\ InArena(ret, last.d)
    /\ ret.i % PAGE_SIZE = 0
    /\ g_pages[ADDR_TO_PAGE(ret.i)].order = last.d

\* C8 (exhaustion): the first 2^(MAX_ORDER-MIN_ORDER) buddy_alloc calls of
\* the minimum size all succeed, with distinct page-aligned addresses inside
\* the arena.
C8_Exhaustion ==
  (/\ last.op = "alloc" /\ last.d = MIN_ORDER
   /\ nops <= n_pages /\ Len(live) >= nops - 1
   /\ \A i \in DOMAIN live : live[i].order = MIN_ORDER)
  => /\ status = "ok"
     /\ Len(live) = nops
     /\ \A i \in DOMAIN live :
          /\ InArena(live[i].addr, MIN_ORDER)
          /\ live[i].addr.i % PAGE_SIZE = 0
          /\ \A j \in DOMAIN live : i # j => live[i].addr # live[j].addr

\* the state buddy_init is to establish
Fresh ==
  /\ \A p \in PageIdx : g_pages[p].order = 255
  /\ \A o \in MIN_ORDER..(MAX_ORDER - 1) :
       free_area[o] = [next |-> FaPtr(o), prev |-> FaPtr(o)]
  /\ free_area[MAX_ORDER] = [next |-> PgPtr(0), prev |-> PgPtr(0)]
  /\ g_pages[0].next = FaPtr(MAX_ORDER)
  /\ g_pages[0].prev = FaPtr(MAX_ORDER)
  /\ DumpView(Cur) = [o \in Orders |-> IF o = MAX_ORDER THEN 1 ELSE 0]
  /\ live = <<>>

\* C9 (initialisation): after buddy_init, whatever the state it was called
\* in, every page carries the sentinel order, the free lists below
\* MAX_ORDER are empty, the MAX_ORDER list holds exactly page 0, and no
\* earlier allocation survives.
C9_Init == (status = "ok" /\ last.op = "init") => Fresh

\* buddy_init was called with allocations outstanding and free lists that
\* could no longer be walked
C9_Witness ==
  /\ status = "ok" /\ last.op = "init" /\ last.n > 0
  /\ \E o \in Orders : last.pre[o] = -1
  /\ Fresh

\* C10 (dump): buddy_dump terminates and reports, for every order, the
\* number of blocks on that order's free list, changing nothing.
C10_Dump ==
  last.op = "dump" =>
    /\ status = "ok"
    /\ dumped = [o \in Orders |-> Cardinality(Members(Cur, o))]
    /\ last.same

\* the free blocks (head page p, order o) whose range holds the address a
FreeCovering(a) ==
  {b \in Orders \X PageIdx :
     /\ b[2] \in FreeBlocks(Cur, b[1])
     /\ a.k = "mem"
     /\ b[2] * PAGE_SIZE <= a.i
     /\ a.i < b[2] * PAGE_SIZE + 2^(b[1])}

\* C11 (free makes the block available): after buddy_free(addr) the freed
\* block, or the merged block holding it, is on exactly one free list, of an
\* order not below the order it was allocated with.
C11_FreeAvailable ==
  (status = "ok" /\ last.op = "free") =>
    /\ Cardinality(FreeCovering(last.addr)) = 1
    /\ \A b \in FreeCovering(last.addr) : b[1] >= last.d

\* C13 (free-list/order consistency): every page linked on the order-k free
\* list has its order field equal to k.
C13_ListOrder ==
  status = "ok" =>
    \A o \in Orders : \A e \in Members(Cur, o) :
      e.k = "pg" => g_pages[e.i].order = o

\* the number of live blocks, free or allocated, that hold page p
Covering(p) ==
  Cardinality({b \in Orders \X PageIdx :
                 /\ b[2] \in FreeBlocks(Cur, b[1])
                 /\ b[2] * PAGE_SIZE <= p * PAGE_SIZE
                 /\ p * PAGE_SIZE < b[2] * PAGE_SIZE + 2^(b[1])})
  + Cardinality({i \in DOMAIN live :
                 /\ live[i].addr.k = "mem"
                 /\ live[i].addr.i <= p * PAGE_SIZE
                 /\ p * PAGE_SIZE < live[i].addr.i + 2^(live[i].order)})

\* C16 (arena partition): every page of the arena lies in exactly one live
\* block, free or allocated.
C16_Partition == status = "ok" => \A p \in PageIdx : Covering(p) = 1

\* C18 (returned address): the address a buddy_alloc of a valid size
\* returns is an arena offset in [0, 2^MAX_ORDER - 2^desired_order] that is a
\* multiple of 2^desired_order.
C18_ReturnedAddress ==
  (Returned /\ last.d \in Orders) =>
    /\ ret.k = "mem"
    /\ ret.i >= 0 /\ ret.i <= ArenaSize - 2^(last.d)
    /\ ret.i % (2^(last.d)) = 0

\* free list o is a circular doubly-linked list through its head whose
\* entries are pages of g_pages[]
WellFormed(o) ==
  /\ Walk(Cur, o).st = "ok"
  /\ \A e \in Members(Cur, o) : e.k = "pg" /\ e.i \in PageIdx
  /\ \A e \in Members(Cur, o) \cup {FaPtr(o)} :
       /\ Valid(LoadNext(Cur, e)) /\ Valid(LoadPrev(Cur, e))
       /\ LoadPrev(Cur, LoadNext(Cur, e)) = e
       /\ LoadNext(Cur, LoadPrev(Cur, e)) = e

\* C19 (list integrity): every free list stays a well-formed circular list
\* anchored at its head, holds only pages of g_pages[], and no page is on
\* two lists.
C19_ListIntegrity ==
  status = "ok" =>
    /\ \A o \in Orders : WellFormed(o)
    /\ \A o1 \in Orders : \A o2 \in Orders :
         o1 # o2 => FreeBlocks(Cur, o1) \cap FreeBlocks(Cur, o2) = {}

\* C20 (full coalescing): once every outstanding address has been freed the
\* free lists are again one block of order MAX_ORDER headed by page 0.
C20_FullCoalescing ==
  (status = "ok" /\ last.op = "free" /\ live = <<>>) =>
    /\ \A o \in MIN_ORDER..(MAX_ORDER - 1) : Members(Cur, o) = {}
    /\ Members(Cur, MAX_ORDER) = {PgPtr(0)}
    /\ Walk(Cur, MAX_ORDER).st = "ok"

\* the entry e leaves the order-o list legitimately when a block of order d
\* at addr is freed: e is the page heading the order-o buddy of the block
\* that holds addr, and has order o
LegitMerge(e, o, addr, d) ==
  /\ e.k = "pg" /\ e.i \in PageIdx
  /\ addr.k = "mem"
  /\ o >= d /\ o < MAX_ORDER
  /\ g_pages[e.i].order = o
  /\ e.i * PAGE_SIZE = BUDDY_ADDR((addr.i \div 2^o) * 2^o, o)

FreeStep == last'.op = "free" /\ nops' = nops + 1

AllocStep == last'.op = "alloc" /\ nops' = nops + 1

C14_SplitShape ==
  [][(/\ AllocStep /\ status' = "ok" /\ last'.d \in Orders
      /\ UpperOrder(Cur, last'.d) > last'.d
      /\ free_area[UpperOrder(Cur, last'.d)].next.k = "pg"
      /\ free_area[UpperOrder(Cur, last'.d)].next.i \in PageIdx)
     => LET d == last'.d
            s == UpperOrder(Cur, d)
            b == free_area[s].next.i
        IN  /\ ret' = PAGE_TO_ADDR(b)
            /\ FreeBlocks(NextMem, s) = FreeBlocks(Cur, s) \ {b}
            /\ \A j \in d..(s - 1) :
                 FreeBlocks(NextMem, j) =
                   FreeBlocks(Cur, j) \cup {b + (2^j \div PAGE_SIZE)}]_vars

\* C15 (source selection): a successful alloc takes its block from the
\* smallest non-empty list k >= d and leaves the lists above k alone; when
\* k = d it returns the address of that list's first entry, removes only
\* that entry and changes no other list.
C15_SourceSelection ==
  [][(/\ AllocStep /\ status' = "ok" /\ last'.d \in Orders
      /\ UpperOrder(Cur, last'.d) \in Orders
      /\ free_area[UpperOrder(Cur, last'.d)].next.k = "pg"
      /\ free_area[UpperOrder(Cur, last'.d)].next.i \in PageIdx)
     => LET d == last'.d
            k == UpperOrder(Cur, d)
            b == free_area[k].next.i
        IN  /\ \A o \in (k + 1)..MAX_ORDER : free_area'[o] = free_area[o]
            /\ b \notin FreeBlocks(NextMem, k)
            /\ k = d =>
                 /\ ret' = PAGE_TO_ADDR(b)
                 /\ FreeBlocks(NextMem, d) = FreeBlocks(Cur, d) \ {b}
                 /\ \A o \in Orders \ {d} : free_area'[o] = free_area[o]]_vars

\* C17 (buddy identity): for an offset a aligned to 2^k, k below the maximum
\* order, BUDDY_ADDR(a, k) differs from a in bit k and nowhere else, lies in
\* the arena and is 2^k-aligned, and BUDDY_ADDR of it at order k is a again.
C17_BuddyIdentity ==
  /\ probe.st \in {"once", "twice"} =>
       /\ (probe.b \div 2^(probe.k)) % 2 # (probe.a \div 2^(probe.k)) % 2
       /\ probe.b \div 2^(probe.k + 1) = probe.a \div 2^(probe.k + 1)
       /\ probe.b % 2^(probe.k) = probe.a % 2^(probe.k)
       /\ probe.b >= 0 /\ probe.b < 2^MAX_ORDER_SRC
       /\ probe.b % 2^(probe.k) = 0
  /\ probe.st = "twice" => probe.bb = probe.a

\* the buddy of an upper half at the highest order below the maximum was
\* taken twice
C17_Witness ==
  /\ probe.st = "twice"
  /\ probe.k = MAX_ORDER_SRC - 1
  /\ probe.a = 2^(probe.k)
  /\ probe.b = 0
  /\ probe.bb = probe.a

====
